---- MODULE Spec2Model ----
(***************************************************************************)
(* A model of radioserver: the client's frame parser and connection        *)
(* (client/radioclient.go), the wire format (protocol/protocol.go) and     *)
(* the server's session registry and RXIQ pipeline (server/rpcCalls.go).   *)
(*                                                                         *)
(* Two specifications share the module:                                    *)
(*   SpecServer  the RPC handlers of rpcCalls.go, one goroutine per call,  *)
(*               stepped at every point where another goroutine's access   *)
(*               of rs.sessions or of a session can fall;                  *)
(*   SpecClient  the client's background consumer (threadLoop and          *)
(*               parseMessage) and the foreground Connect / Disconnect.    *)
(***************************************************************************)
EXTENDS Integers, Sequences, FiniteSets, TLC

\* ------------------------------------------------------------ bounds
\* Concurrent RPC calls in flight (goroutines of the gRPC server).
NCalls == 2
\* Sessions GenerateSession can hand out before every frontend is busy.
MaxSessions == 2
\* Sample buffers one device session produces.
MaxBuffers == 1
\* RPC calls made in one run.
MaxOps == 3

\* Connections the client dials in one run.
MaxConnects == 2

\* Rounds of Connect's wait between which the other goroutines get to run.
PollsTraced == 2

Calls == 1..NCalls
Tokens == 1..MaxSessions
\* The DeviceState / DeviceConfig values a caller sends (opaque payloads).
Configs == {"cfgA", "cfgB"}
\* The nil *Session.
Nil == 0

\* A call that takes no DeviceState or DeviceConfig argument.
NoConfig == "none"

VARIABLES
    \* ---- server (rpcCalls.go)
    sessions,      \* rs.sessions: map token -> *Session (a function on its keys)
    sessionLock,   \* rs.sessionLock: 0 when free, else the call holding it
    heap,          \* the Session objects GenerateSession has made, by ID
    nextToken,     \* the next ID GenerateSession generates
    op,            \* the handler each call runs
    pc,            \* each call's position in its handler
    tok,           \* each call's token argument (sid.Token, dt.Session.Token)
    cfg,           \* each call's DeviceState / DeviceConfig argument
    sref,          \* each call's local s (*Session), Nil when nil
    result,        \* what each call last returned
    sent,          \* the buffers each call pushed to its stream, in order
    pipeStops,     \* FullStop calls made by each call's RXIQ defers
    pipeDeletes,   \* map deletes made by each call's RXIQ defers
    ops,           \* RPC calls made so far
    issued,        \* the tokens Provision has returned
    crashed        \* "no", or why the process died: "map_race" (the runtime's
                   \* fatal error) or "nil_deref" (an unrecovered panic)

serverVars == <<sessions, sessionLock, heap, nextToken, op, pc, tok, cfg, sref, result,
                sent, pipeStops, pipeDeletes, ops, issued, crashed>>

VARIABLES
    \* ---- client (radioclient.go)
    f,             \* the RadioClient object: its fields
    conns,         \* the connections net.Dial has made, in order: how many bytes
                   \* of the stream were read (rx), whether the client closed it
                   \* (closed), the commands written to it (written)
    cpc,           \* the position of each background consumer (threadLoop), one
                   \* per dialled connection
    tbuf,          \* the rest of the chunk each consumer's parseMessage holds
    fpc,           \* the foreground's position: idle, polling (in Connect),
                   \* connected, failed (Connect panicked and the caller recovered)
    polls,         \* Connect's loop counter i
    connectError,  \* the message Connect last panicked with, "" when none
    panicMsg,      \* the panic that ended the process from a consumer, "" when none
    stream,        \* the bytes the server sends on a connection
    dispatched,    \* the messages handleNewMessage has handled, in order
    calls          \* the calls made on the client's functions one at a time, in
                   \* order: the function (op), its arguments (arg), what it
                   \* returned (ret)

clientVars == <<f, conns, cpc, tbuf, fpc, polls, connectError, panicMsg, stream,
                dispatched, calls>>

vars == <<serverVars, clientVars>>

\* ------------------------------------------------ the Session object
\* frontends.Session as the server uses it. fifo holds buffer numbers;
\* stoppers lists who called FullStop, in order; lastUpdate counts KeepAlive calls.
NewSession(d) ==
    [config |-> d, running |-> FALSE, fullStopped |-> FALSE, stoppers |-> <<>>,
     fifo |-> <<>>, produced |-> 0, lastUpdate |-> 0]

\* Session.FullStop: release the device, stop the stream, flush the buffers.
\* who is the caller: "Destroy", "RXIQ" or "timeout".
FullStop(o, who) ==
    [o EXCEPT !.fullStopped = TRUE, !.fifo = <<>>, !.stoppers = Append(@, who)]

\* Session.TuneFrontend
TuneFrontend(o, c) == [o EXCEPT !.config = c]

\* Session.KeepAlive
KeepAlive(o) == [o EXCEPT !.lastUpdate = @ + 1]

\* ------------------------------------------------ rs.sessions accesses
\* rs.sessions[t]: nil for a missing key.
MapGet(m, t) == IF t \in DOMAIN m THEN m[t] ELSE Nil

\* rs.sessions[t] = s
MapPut(m, t, s) == [k \in (DOMAIN m) \cup {t} |-> IF k = t THEN s ELSE m[k]]

\* delete(rs.sessions, t): a no-op for a missing key.
MapDelete(m, t) == [k \in (DOMAIN m) \ {t} |-> m[k]]

\* The map access call c makes next from where it stands: "r", "w" or "none".
\* (A lookup is made in the step that starts its handler, so only the accesses
\* that follow another step are pending ones.)
Pending(c) ==
    CASE pc[c] = "prov_insert" -> "w"
      [] pc[c] = "destroy_delete" -> "w"
      [] pc[c] = "rxiq_delete" -> "w"
      [] OTHER -> "none"

\* Whether call c holds rs.sessionLock when it makes the access it is about to make.
Locked(c) == sessionLock = c

\* An access of kind k by call c is concurrent with a conflicting access of
\* another call: both are enabled and no lock orders them.
Race(c, k) ==
    \E d \in Calls \ {c} :
        /\ Pending(d) # "none"
        /\ (k = "w" \/ Pending(d) = "w")
        /\ ~(Locked(c) /\ Locked(d))

\* What a racy map access can do: the Go runtime detects it and ends the
\* process (fatal error: concurrent map read and map write), or it goes
\* undetected and the access takes effect.
Outcomes(c, k) == IF Race(c, k) THEN {"fatal", "done"} ELSE {"done"}

Die ==
    /\ crashed' = "map_race"
    /\ UNCHANGED <<sessions, sessionLock, heap, nextToken, op, pc, tok, cfg, sref,
                   result, sent, pipeStops, pipeDeletes, ops, issued>>

\* Handler h starts on a free call slot, the lowest one (the slots are
\* interchangeable goroutines), with token t and payload d.
Begin(c, h, t, d) ==
    /\ crashed = "no"
    /\ pc[c] = "idle"
    /\ \A b \in Calls : b < c => pc[b] # "idle"
    /\ ops < MaxOps
    /\ ops' = ops + 1
    /\ op' = [op EXCEPT ![c] = h]
    /\ tok' = [tok EXCEPT ![c] = t]
    /\ cfg' = [cfg EXCEPT ![c] = d]
    /\ UNCHANGED <<sent, pipeStops, pipeDeletes>>
    /\ UNCHANGED clientVars

\* The handler returns r to its caller.
Return(c, r) ==
    /\ pc' = [pc EXCEPT ![c] = "done"]
    /\ result' = [result EXCEPT ![c] = r]

\* The handler goes on to position p.
Goto(c, p) ==
    /\ pc' = [pc EXCEPT ![c] = p]
    /\ UNCHANGED result

\* The caller has its answer; the goroutine ends and its locals are gone.
Finish(c) ==
    /\ crashed = "no"
    /\ pc[c] = "done"
    /\ pc' = [pc EXCEPT ![c] = "idle"]
    /\ op' = [op EXCEPT ![c] = "none"]
    /\ tok' = [tok EXCEPT ![c] = Nil]
    /\ cfg' = [cfg EXCEPT ![c] = NoConfig]
    /\ sref' = [sref EXCEPT ![c] = Nil]
    /\ result' = [result EXCEPT ![c] = "none"]
    /\ sent' = [sent EXCEPT ![c] = <<>>]
    /\ pipeStops' = [pipeStops EXCEPT ![c] = 0]
    /\ pipeDeletes' = [pipeDeletes EXCEPT ![c] = 0]
    /\ UNCHANGED <<sessions, sessionLock, heap, nextToken, ops, issued, crashed>>
    /\ UNCHANGED clientVars

\* ------------------------------------------------ Provision (rpcCalls.go 25-40)
\* GenerateSession(d): a new Session with an ID no other session has, or nil
\* when no frontend accepts the request.
GenerateSession(d) == {Nil} \cup (IF nextToken <= MaxSessions THEN {nextToken} ELSE {})

\* Lock, GenerateSession; on nil the call returns its error (and unlocks).
ProvisionBegin(c, d) ==
    /\ Begin(c, "Provision", Nil, d)
    /\ sessionLock = 0
    /\ \E s \in GenerateSession(d) :
         /\ sref' = [sref EXCEPT ![c] = s]
         /\ IF s = Nil
              THEN /\ Return(c, "err_provision")
                   /\ UNCHANGED <<sessionLock, heap, nextToken>>
              ELSE /\ heap' = (s :> NewSession(d)) @@ heap
                   /\ nextToken' = nextToken + 1
                   /\ sessionLock' = c
                   /\ Goto(c, "prov_insert")
    /\ UNCHANGED <<sessions, issued, crashed>>

\* rs.sessions[s.ID] = s; return the token; the deferred Unlock.
ProvisionInsert(c) ==
    /\ crashed = "no"
    /\ pc[c] = "prov_insert"
    /\ \E o \in Outcomes(c, "w") :
         IF o = "fatal" THEN Die
         ELSE /\ sessions' = MapPut(sessions, sref[c], sref[c])
              /\ tok' = [tok EXCEPT ![c] = sref[c]]
              /\ issued' = issued \cup {sref[c]}
              /\ sessionLock' = 0
              /\ Return(c, "ok")
              /\ UNCHANGED <<heap, nextToken, op, cfg, sref, sent, pipeStops,
                             pipeDeletes, ops, crashed>>
    /\ UNCHANGED clientVars

\* ------------------------------------------------ Destroy (rpcCalls.go 42-56)
\* Lock, s := rs.sessions[sid.Token]; a nil s returns miss (and unlocks).
DestroyLookupWith(c, t, miss) ==
    /\ Begin(c, "Destroy", t, NoConfig)
    /\ sessionLock = 0
    /\ \E o \in Outcomes(c, "r") :
         IF o = "fatal"
           THEN /\ crashed' = "map_race"
                /\ UNCHANGED <<sessionLock, pc, sref, result>>
           ELSE /\ sref' = [sref EXCEPT ![c] = MapGet(sessions, t)]
                /\ IF MapGet(sessions, t) = Nil
                     THEN /\ Return(c, miss)
                          /\ UNCHANGED sessionLock
                     ELSE /\ sessionLock' = c
                          /\ Goto(c, "destroy_delete")
                /\ UNCHANGED crashed
    /\ UNCHANGED <<sessions, heap, nextToken, issued>>

\* A Destroy that answers an unknown token with success.
DestroyLookupSilent(c, t) == DestroyLookupWith(c, t, "ok")

DestroyLookup(c, t) == DestroyLookupWith(c, t, "err_nosession")

\* A Destroy that empties the registry.
DestroyDeleteAll(c) ==
    /\ crashed = "no"
    /\ pc[c] = "destroy_delete"
    /\ sessions' = <<>>
    /\ Goto(c, "destroy_stop")
    /\ UNCHANGED <<sessionLock, heap, nextToken, op, tok, cfg, sref, sent,
                   pipeStops, pipeDeletes, ops, issued, crashed>>
    /\ UNCHANGED clientVars

\* delete(rs.sessions, sid.Token)
DestroyDelete(c) ==
    /\ crashed = "no"
    /\ pc[c] = "destroy_delete"
    /\ \E o \in Outcomes(c, "w") :
         IF o = "fatal" THEN Die
         ELSE /\ sessions' = MapDelete(sessions, tok[c])
              /\ Goto(c, "destroy_stop")
              /\ UNCHANGED <<sessionLock, heap, nextToken, op, tok, cfg, sref, sent,
                             pipeStops, pipeDeletes, ops, issued, crashed>>
    /\ UNCHANGED clientVars

\* s.FullStop(); return; the deferred Unlock.
DestroyStop(c) ==
    /\ crashed = "no"
    /\ pc[c] = "destroy_stop"
    /\ heap' = [heap EXCEPT ![sref[c]] = FullStop(@, "Destroy")]
    /\ sessionLock' = 0
    /\ Return(c, "ok")
    /\ UNCHANGED <<sessions, nextToken, op, tok, cfg, sref, sent, pipeStops,
                   pipeDeletes, ops, issued, crashed>>
    /\ UNCHANGED clientVars

\* ------------------------------------------------ Tune (rpcCalls.go 62-70)
\* s := rs.sessions[dt.Session.Token], without the lock; nil returns the error.
TuneLookup(c, t, d) ==
    /\ Begin(c, "Tune", t, d)
    /\ \E o \in Outcomes(c, "r") :
         IF o = "fatal"
           THEN /\ crashed' = "map_race"
                /\ UNCHANGED <<pc, sref, result>>
           ELSE /\ sref' = [sref EXCEPT ![c] = MapGet(sessions, t)]
                /\ IF MapGet(sessions, t) = Nil
                     THEN Return(c, "err_nosession")
                     ELSE Goto(c, "tune_forward")
                /\ UNCHANGED crashed
    /\ UNCHANGED <<sessions, sessionLock, heap, nextToken, issued>>

\* s.TuneFrontend(dt.Config); return dt.Config.
TuneForward(c) ==
    /\ crashed = "no"
    /\ pc[c] = "tune_forward"
    /\ heap' = [heap EXCEPT ![sref[c]] = TuneFrontend(@, cfg[c])]
    /\ Return(c, "ok")
    /\ UNCHANGED <<sessions, sessionLock, nextToken, op, tok, cfg, sref, sent,
                   pipeStops, pipeDeletes, ops, issued, crashed>>
    /\ UNCHANGED clientVars

\* ------------------------------------------------ RXIQ (rpcCalls.go 72-113)
\* s := rs.sessions[sid.Token], without the lock; s.CG.IQRunning() on it: a nil
\* s is dereferenced (a panic no handler recovers), a running one returns
\* "already running".
RXIQLookup(c, t) ==
    /\ Begin(c, "RXIQ", t, NoConfig)
    /\ \E o \in Outcomes(c, "r") :
         IF o = "fatal" \/ MapGet(sessions, t) = Nil
           THEN /\ crashed' = IF o = "fatal" THEN "map_race" ELSE "nil_deref"
                /\ UNCHANGED <<pc, sref, result>>
           ELSE /\ sref' = [sref EXCEPT ![c] = MapGet(sessions, t)]
                /\ IF heap[MapGet(sessions, t)].running
                     THEN Return(c, "err_running")
                     ELSE Goto(c, "rxiq_start")
                /\ UNCHANGED crashed
    /\ UNCHANGED <<sessions, sessionLock, heap, nextToken, issued>>

\* s.CG.StartIQ(); the two defers are registered.
RXIQStartIQ(c) ==
    /\ crashed = "no"
    /\ pc[c] = "rxiq_start"
    /\ heap' = [heap EXCEPT ![sref[c]].running = TRUE]
    /\ Goto(c, "rxiq_loop")
    /\ UNCHANGED <<sessions, sessionLock, nextToken, op, tok, cfg, sref, sent,
                   pipeStops, pipeDeletes, ops, issued, crashed>>
    /\ UNCHANGED clientVars

\* The pass of the inner loop up to Send's return, where a failed Send leaves
\* by position fail: IQFifo.Len() > 0, IQFifo.Next(), server.Send(pb).
RXIQSendWith(c, fail) ==
    /\ crashed = "no"
    /\ pc[c] = "rxiq_loop"
    /\ Len(heap[sref[c]].fifo) > 0
    /\ heap' = [heap EXCEPT ![sref[c]].fifo = Tail(@)]
    /\ \E ok \in BOOLEAN :
         IF ok
           THEN /\ sent' = [sent EXCEPT ![c] = Append(@, Head(heap[sref[c]].fifo))]
                /\ Goto(c, "rxiq_sent")
           ELSE /\ pc' = [pc EXCEPT ![c] = fail]
                /\ result' = [result EXCEPT ![c] = "err_send"]
                /\ UNCHANGED sent
    /\ UNCHANGED <<sessions, sessionLock, nextToken, op, tok, cfg, sref, pipeStops,
                   pipeDeletes, ops, issued, crashed>>
    /\ UNCHANGED clientVars

\* An RXIQ whose cleanup is not deferred: a failed Send returns at once.
RXIQSendNoCleanup(c) == RXIQSendWith(c, "done")

\* A failed Send returns its error: the defers run.
RXIQSend(c) == RXIQSendWith(c, "rxiq_fullstop")

\* A pass that does not refresh the session after its push.
RXIQAfterSendNoRefresh(c) ==
    /\ crashed = "no"
    /\ pc[c] = "rxiq_sent"
    /\ UNCHANGED heap
    /\ IF heap[sref[c]].fullStopped
         THEN /\ pc' = [pc EXCEPT ![c] = "rxiq_fullstop"]
              /\ result' = [result EXCEPT ![c] = "err_expired"]
         ELSE Goto(c, "rxiq_loop")
    /\ UNCHANGED <<sessions, sessionLock, nextToken, op, tok, cfg, sref, sent,
                   pipeStops, pipeDeletes, ops, issued, crashed>>
    /\ UNCHANGED clientVars

\* The rest of the pass: s.KeepAlive(), the pool, s.IsFullStopped().
RXIQAfterSend(c) ==
    /\ crashed = "no"
    /\ pc[c] = "rxiq_sent"
    /\ heap' = [heap EXCEPT ![sref[c]] = KeepAlive(@)]
    /\ IF heap[sref[c]].fullStopped
         THEN /\ pc' = [pc EXCEPT ![c] = "rxiq_fullstop"]
              /\ result' = [result EXCEPT ![c] = "err_expired"]
         ELSE Goto(c, "rxiq_loop")
    /\ UNCHANGED <<sessions, sessionLock, nextToken, op, tok, cfg, sref, sent,
                   pipeStops, pipeDeletes, ops, issued, crashed>>
    /\ UNCHANGED clientVars

\* defer s.FullStop(): the defer registered last runs first.
RXIQDeferFullStop(c) ==
    /\ crashed = "no"
    /\ pc[c] = "rxiq_fullstop"
    /\ heap' = [heap EXCEPT ![sref[c]] = FullStop(@, "RXIQ")]
    /\ pipeStops' = [pipeStops EXCEPT ![c] = @ + 1]
    /\ Goto(c, "rxiq_delete")
    /\ UNCHANGED <<sessions, sessionLock, nextToken, op, tok, cfg, sref, sent,
                   pipeDeletes, ops, issued, crashed>>
    /\ UNCHANGED clientVars

\* defer delete(rs.sessions, sid.Token), without the lock; RXIQ returns.
RXIQDeferDelete(c) ==
    /\ crashed = "no"
    /\ pc[c] = "rxiq_delete"
    /\ \E o \in Outcomes(c, "w") :
         IF o = "fatal" THEN Die
         ELSE /\ sessions' = MapDelete(sessions, tok[c])
              /\ pipeDeletes' = [pipeDeletes EXCEPT ![c] = @ + 1]
              /\ Return(c, result[c])
              /\ UNCHANGED <<sessionLock, heap, nextToken, op, tok, cfg, sref, sent,
                             pipeStops, ops, issued, crashed>>
    /\ UNCHANGED clientVars

\* ------------------------------------------------ the device and the timeout
\* The bound device session feeds s.IQFifo while acquisition is on.
DeviceProduceUpTo(s, n) ==
    /\ crashed = "no"
    /\ s \in DOMAIN heap
    /\ heap[s].running /\ ~heap[s].fullStopped
    /\ heap[s].produced < n
    /\ heap' = [heap EXCEPT ![s].produced = @ + 1,
                            ![s].fifo = Append(@, heap[s].produced + 1)]
    /\ UNCHANGED <<sessions, sessionLock, nextToken, op, pc, tok, cfg, sref, result,
                   sent, pipeStops, pipeDeletes, ops, issued, crashed>>
    /\ UNCHANGED clientVars

\* The device of the server's specification: MaxBuffers buffers a session.
DeviceProduce(s) == DeviceProduceUpTo(s, MaxBuffers)

\* The inactivity timeout marks a registered session fully stopped.
SessionExpire(s) ==
    /\ crashed = "no"
    /\ s \in DOMAIN sessions
    /\ ~heap[sessions[s]].fullStopped
    /\ heap' = [heap EXCEPT ![sessions[s]] = FullStop(@, "timeout")]
    /\ UNCHANGED <<sessions, sessionLock, nextToken, op, pc, tok, cfg, sref, result,
                   sent, pipeStops, pipeDeletes, ops, issued, crashed>>
    /\ UNCHANGED clientVars

\* ------------------------------------------------ the server's specification
ServerInit ==
    /\ sessions = <<>>
    /\ sessionLock = 0
    /\ heap = <<>>
    /\ nextToken = 1
    /\ op = [c \in Calls |-> "none"]
    /\ pc = [c \in Calls |-> "idle"]
    /\ tok = [c \in Calls |-> Nil]
    /\ cfg = [c \in Calls |-> NoConfig]
    /\ sref = [c \in Calls |-> Nil]
    /\ result = [c \in Calls |-> "none"]
    /\ sent = [c \in Calls |-> <<>>]
    /\ pipeStops = [c \in Calls |-> 0]
    /\ pipeDeletes = [c \in Calls |-> 0]
    /\ ops = 0
    /\ issued = {}
    /\ crashed = "no"

NextServer ==
    \/ \E c \in Calls, d \in Configs : ProvisionBegin(c, d)
    \/ \E c \in Calls : ProvisionInsert(c)
    \/ \E c \in Calls, t \in Tokens : DestroyLookup(c, t)
    \/ \E c \in Calls : DestroyDelete(c)
    \/ \E c \in Calls : DestroyStop(c)
    \/ \E c \in Calls, t \in Tokens, d \in Configs : TuneLookup(c, t, d)
    \/ \E c \in Calls : TuneForward(c)
    \/ \E c \in Calls, t \in Tokens : RXIQLookup(c, t)
    \/ \E c \in Calls : RXIQStartIQ(c)
    \/ \E c \in Calls : RXIQSend(c)
    \/ \E c \in Calls : RXIQAfterSend(c)
    \/ \E c \in Calls : RXIQDeferFullStop(c)
    \/ \E c \in Calls : RXIQDeferDelete(c)
    \/ \E c \in Calls : Finish(c)
    \/ \E s \in Tokens : DeviceProduce(s)
    \/ \E s \in Tokens : SessionExpire(s)


\* ================================================================ wire format
\* (protocol/protocol.go)
MessageHeaderSize == 24
MaxMessageBodySize == 1048576
ParserAcquiringHeader == 0
ParserReadingData == 1
MsgTypeDeviceInfo == 1
MsgTypeClientSync == 2
MsgTypeReadSetting == 4
MsgTypeIQ == 5
MsgTypeSmartIQ == 6
CmdHello == 0
CmdSetSetting == 2
SettingStreamingMode == 0
SettingIqDecimation == 4
SettingSmartDecimation == 7
StreamTypeIQ == 5
DeviceInvalid == 0
Invalid == 0
\* Connect's readiness polls.
PollLimit == 1000

\* ---- unsigned integers of the program, by their bits
\* A uint32 is held as two 16-bit limbs [hi, lo]: its value is hi * 2^16 + lo.
Limb == 65536

U32Of(n) == [hi |-> (n \div Limb) % Limb, lo |-> n % Limb]

\* The value of a uint32 known to be below 2^31.
U32Nat(u) == u.hi * Limb + u.lo

U32Max == [hi |-> Limb - 1, lo |-> Limb - 1]

\* a + b and a - b in uint32 arithmetic (modulo 2^32).
U32Add(a, b) ==
    LET lo == a.lo + b.lo
    IN  [hi |-> (a.hi + b.hi + lo \div Limb) % Limb, lo |-> lo % Limb]

U32Sub(a, b) ==
    LET lo == a.lo - b.lo
        borrow == IF lo < 0 THEN 1 ELSE 0
    IN  [hi |-> (a.hi - b.hi - borrow + 2 * Limb) % Limb, lo |-> (lo + Limb) % Limb]

U32Less(a, b) == a.hi < b.hi \/ (a.hi = b.hi /\ a.lo < b.lo)

\* encoding/binary, little endian: the 4 bytes of a uint32, and the uint32 in
\* the 4 bytes of b that follow offset off.
PutU32(u) == <<u.lo % 256, u.lo \div 256, u.hi % 256, u.hi \div 256>>

GetU32(b, off) ==
    [hi |-> b[off + 3] + 256 * b[off + 4], lo |-> b[off + 1] + 256 * b[off + 2]]

\* The bitwise or of two bytes.
RECURSIVE OrByte(_, _)
OrByte(x, y) ==
    IF x = 0 THEN y
    ELSE IF y = 0 THEN x
    ELSE (IF x % 2 = 1 \/ y % 2 = 1 THEN 1 ELSE 0) + 2 * OrByte(x \div 2, y \div 2)

\* A protocol.Version: Major, Minor and Hash are uint32.
CurrentProtocolVersion == [Major |-> U32Of(0), Minor |-> U32Of(1), Hash |-> U32Of(0)]

\* A GenProtocolVersion that shifts the major as it shifts the minor.
GenProtocolVersionOneShift(v) ==
    LET ma == PutU32(v.Major)
        mi == PutU32(v.Minor)
    IN  PutU32(v.Hash)
            \o <<OrByte(mi[1], ma[1]), OrByte(mi[2], ma[2]), OrByte(mi[3], ma[3]),
                 OrByte(mi[4], ma[4])>>

\* GenProtocolVersion: uint64(Major)<<40 | uint64(Minor)<<32 | uint64(Hash), as
\* the 8 little-endian bytes of the uint64.
GenProtocolVersion(v) ==
    LET ma == PutU32(v.Major)
        mi == PutU32(v.Minor)
    IN  PutU32(v.Hash)
            \o <<mi[1], OrByte(mi[2], ma[1]), OrByte(mi[3], ma[2]), OrByte(mi[4], ma[3])>>

\* SplitProtocolVersion of the 8 little-endian bytes of a uint64: the byte at
\* bit 40, the byte at bit 32, the low 32 bits.
SplitProtocolVersion(p) ==
    [Major |-> U32Of(p[6]), Minor |-> U32Of(p[5]), Hash |-> GetU32(p, 0)]

\* binary.Read of a MessageHeader from the 24 bytes of the header buffer.
DecodeHeader(b) ==
    [PacketNumber    |-> GetU32(b, 0),
     ProtocolVersion |-> SubSeq(b, 5, 12),
     MessageType     |-> GetU32(b, 12),
     Reserved        |-> GetU32(b, 16),
     BodySize        |-> GetU32(b, 20)]

\* A MessageHeader as the peer writes it.
EncodeHeader(h) ==
    PutU32(h.PacketNumber) \o h.ProtocolVersion \o PutU32(h.MessageType)
        \o PutU32(h.Reserved) \o PutU32(h.BodySize)

\* A CommandHeader {CommandType, BodySize} followed by the argument bytes.
EncodeCommand(cmd, args) == PutU32(U32Of(cmd)) \o PutU32(U32Of(Len(args))) \o args

ZeroHeader ==
    [PacketNumber |-> U32Of(0), ProtocolVersion |-> <<0, 0, 0, 0, 0, 0, 0, 0>>,
     MessageType |-> U32Of(0), Reserved |-> U32Of(0), BodySize |-> U32Of(0)]

min(a, b) == IF a < b THEN a ELSE b


\* ================================================================ the client
\* (client/radioclient.go)
\* The read buffer of threadLoop.
ReadBufferSize == 65536
\* binary.Size of protocol.DeviceInfo (ten uint32) and protocol.ClientSync
\* (eleven uint32).
DeviceInfoSize == 40
ClientSyncSize == 44
\* []byte(softwareName), "RadioClient".
softwareName == <<82, 97, 100, 105, 111, 67, 108, 105, 101, 110, 116>>

PanicVersion == "Server is running an unsupported protocol version."
PanicBodySize == "Server sent more than expected body size."
PanicNoDevice == "Server is up but no device is available"
PanicNoInfo == "Server didn't send the device capability and synchronization info."
PanicDial == "dial error"
PanicDecode == "unexpected EOF"

ZeroDeviceInfo ==
    [DeviceType |-> U32Of(DeviceInvalid), DeviceSerial |-> U32Of(0),
     MaximumSampleRate |-> U32Of(0), MinimumFrequency |-> U32Of(0),
     MaximumFrequency |-> U32Of(0), DecimationStages |-> U32Of(0)]

\* cleanup: back to the default state. It leaves client, IsConnected,
\* routineRunning, the header, the buffers and DecimationStages alone.
cleanup(o) ==
    [o EXCEPT !.deviceInfo = [@ EXCEPT !.DeviceType = U32Of(DeviceInvalid),
                                       !.DeviceSerial = U32Of(0),
                                       !.MaximumSampleRate = U32Of(0),
                                       !.MinimumFrequency = U32Of(0),
                                       !.MaximumFrequency = U32Of(0)],
              !.gain = U32Of(0), !.CanControl = FALSE,
              !.gotDeviceInfo = FALSE, !.gotSyncInfo = FALSE,
              !.lastSequenceNumber = U32Max, !.droppedBuffers = U32Of(0),
              !.downStreamBytes = 0,
              !.parserPhase = ParserAcquiringHeader, !.parserPosition = 0,
              !.Streaming = FALSE, !.terminated = TRUE]

\* MakeRadioClient / MakeRadioClientByFullHS. bodyBuffer is its length and
\* the bytes written to it so far (the rest are zero).
MakeRadioClient ==
    cleanup([client |-> 0, callback |-> TRUE,
             terminated |-> FALSE, routineRunning |-> FALSE,
             gotDeviceInfo |-> FALSE, gotSyncInfo |-> FALSE,
             streamingMode |-> StreamTypeIQ, gain |-> U32Of(0),
             availableSampleRates |-> <<>>,
             parserPhase |-> ParserAcquiringHeader, deviceInfo |-> ZeroDeviceInfo,
             header |-> ZeroHeader, lastSequenceNumber |-> U32Of(0),
             droppedBuffers |-> U32Of(0), downStreamBytes |-> 0, parserPosition |-> 0,
             bodyBuffer |-> [size |-> U32Of(0), data |-> <<>>],
             headerBuffer |-> [i \in 1..MessageHeaderSize |-> 0],
             Streaming |-> FALSE, CanControl |-> FALSE, IsConnected |-> FALSE,
             MinimumTunableFrequency |-> U32Of(0), MaximumTunableFrequency |-> U32Of(0),
             DeviceCenterFrequency |-> U32Of(0), SmartCenterFrequency |-> U32Of(0),
             smartDecimation |-> 1, channelDecimation |-> 0,
             currentSampleRate |-> 0, currentSmartSampleRate |-> 0])

\* min(a, uint32(n)) for a uint32 a and a chunk length n <= ReadBufferSize.
MinLen(a, n) == IF a.hi > 0 \/ a.lo >= n THEN n ELSE a.lo

\* parseHeader: copy into the header buffer; once it is full, decode it and,
\* when a body is declared, switch to reading it. Its loop ends after one
\* round: either the header is full or the chunk is used up.
parseHeader(o, buffer) ==
    LET toWrite == min(MessageHeaderSize - o.parserPosition, Len(buffer))
        hb == [i \in 1..MessageHeaderSize |->
                 IF i > o.parserPosition /\ i <= o.parserPosition + toWrite
                 THEN buffer[i - o.parserPosition] ELSE o.headerBuffer[i]]
        h == DecodeHeader(hb)
    IN  IF Len(buffer) = 0 THEN [o |-> o, consumed |-> 0]
        ELSE IF o.parserPosition + toWrite = MessageHeaderSize
        THEN [o |-> [o EXCEPT !.headerBuffer = hb, !.parserPosition = 0, !.header = h,
                              !.parserPhase = IF U32Less(U32Of(0), h.BodySize)
                                              THEN ParserReadingData ELSE @],
              consumed |-> toWrite]
        ELSE [o |-> [o EXCEPT !.headerBuffer = hb, !.parserPosition = @ + toWrite],
              consumed |-> toWrite]

\* parseBody: copy into the body buffer; once BodySize bytes are in, switch
\* back to acquiring a header.
parseBody(o, buffer) ==
    LET toWrite == MinLen(U32Sub(o.header.BodySize, U32Of(o.parserPosition)), Len(buffer))
        pos == o.parserPosition
        old == o.bodyBuffer.data
        top == IF Len(old) > pos + toWrite THEN Len(old) ELSE pos + toWrite
        bb == [o.bodyBuffer EXCEPT !.data =
                 [i \in 1..top |-> IF i > pos /\ i <= pos + toWrite THEN buffer[i - pos]
                                   ELSE IF i <= Len(old) THEN old[i] ELSE 0]]
    IN  IF Len(buffer) = 0 THEN [o |-> o, consumed |-> 0]
        ELSE IF U32Of(o.parserPosition + toWrite) = o.header.BodySize
        THEN [o |-> [o EXCEPT !.bodyBuffer = bb, !.parserPosition = 0,
                              !.parserPhase = ParserAcquiringHeader],
              consumed |-> toWrite]
        ELSE [o |-> [o EXCEPT !.bodyBuffer = bb, !.parserPosition = @ + toWrite],
              consumed |-> toWrite]

\* An int16 from its two little-endian bytes.
Int16(lo, hi) == IF lo + 256 * hi >= 32768 THEN lo + 256 * hi - 65536 ELSE lo + 256 * hi

\* The body buffer read as n complex samples of two int16 each.
Samples(data, n) ==
    [i \in 1..n |-> [Real |-> Int16(data[4 * i - 3], data[4 * i - 2]),
                      Imag |-> Int16(data[4 * i - 1], data[4 * i])]]

\* processDeviceInfo: binary.Read of a DeviceInfo from the body; it panics
\* when the body is shorter than the record.
processDeviceInfo(o) ==
    LET b == o.bodyBuffer.data
    IN  IF Len(b) < DeviceInfoSize THEN [o |-> o, event |-> "none", panic |-> PanicDecode]
        ELSE [o |-> [o EXCEPT !.deviceInfo =
                        [DeviceType |-> GetU32(b, 0), DeviceSerial |-> GetU32(b, 4),
                         MaximumSampleRate |-> GetU32(b, 8), MinimumFrequency |-> GetU32(b, 12),
                         MaximumFrequency |-> GetU32(b, 16), DecimationStages |-> GetU32(b, 20)],
                      !.gotDeviceInfo = TRUE],
              event |-> "none", panic |-> ""]

\* processClientSync: binary.Read of a ClientSync; streamingMode is
\* StreamTypeIQ, so the tunable range is the IQ range.
processClientSync(o) ==
    LET b == o.bodyBuffer.data
    IN  IF Len(b) < ClientSyncSize THEN [o |-> o, event |-> "none", panic |-> PanicDecode]
        ELSE [o |-> [o EXCEPT !.CanControl = (GetU32(b, 0) # U32Of(0)),
                              !.gain = GetU32(b, 4),
                              !.DeviceCenterFrequency = GetU32(b, 16),
                              !.SmartCenterFrequency = GetU32(b, 24),
                              !.MinimumTunableFrequency = GetU32(b, 28),
                              !.MaximumTunableFrequency = GetU32(b, 32),
                              !.gotSyncInfo = TRUE],
              event |-> IF o.callback THEN "ClientSync" ELSE "none", panic |-> ""]

\* processIQ / processSmartIQ: BodySize / 4 samples handed to the callback.
processIQ(o, kind) ==
    [o |-> o, event |-> IF o.callback THEN kind ELSE "none", panic |-> ""]

\* handleNewMessage: nothing once terminated; else by message type, and
\* nothing for a type it does not know.
handleNewMessage(o) ==
    LET t == o.header.MessageType
    IN  IF o.terminated THEN [o |-> o, event |-> "skipped", panic |-> ""]
        ELSE IF t = U32Of(MsgTypeDeviceInfo) THEN processDeviceInfo(o)
        ELSE IF t = U32Of(MsgTypeClientSync) THEN processClientSync(o)
        ELSE IF t = U32Of(MsgTypeIQ) THEN processIQ(o, "SamplesComplex32")
        ELSE IF t = U32Of(MsgTypeSmartIQ) THEN processIQ(o, "SmartSamplesComplex32")
        ELSE [o |-> o, event |-> "none", panic |-> ""]

\* What a handled message leaves in the record of dispatches.
Dispatch(o, event) ==
    [header |-> o.header, body |-> o.bodyBuffer.data, event |-> event,
     samples |-> IF event \in {"SamplesComplex32", "SmartSamplesComplex32"}
                 THEN Samples(o.bodyBuffer.data, U32Nat(o.header.BodySize) \div 4)
                 ELSE <<>>]

\* The condition of the loop at line 221, which calls parseHeader.
HeaderLoopGuard(o) == o.parserPhase = ParserReadingData

\* Lines 221-224: parseHeader while the guard holds and bytes are left.
RECURSIVE headerLoop(_, _)
RECURSIVE headerNext(_, _)
headerLoop(o, buffer) ==
    IF HeaderLoopGuard(o) /\ Len(buffer) > 0 THEN headerNext(parseHeader(o, buffer), buffer)
    ELSE [o |-> o, buffer |-> buffer]

\* Line 223: the loop goes on with the bytes parseHeader did not consume.
headerNext(r, buffer) == headerLoop(r.o, SubSeq(buffer, r.consumed + 1, Len(buffer)))

\* Lines 226-241: when the header loop left the parser reading data, check
\* the version and the body size, then allocate the body buffer.
checkHeader(r) ==
    IF r.o.parserPhase # ParserReadingData
    THEN [o |-> r.o, buffer |-> r.buffer, panic |-> ""]
    ELSE IF \/ CurrentProtocolVersion.Major
                  # SplitProtocolVersion(r.o.header.ProtocolVersion).Major
            \/ CurrentProtocolVersion.Minor
                  # SplitProtocolVersion(r.o.header.ProtocolVersion).Minor
    THEN [o |-> r.o, buffer |-> r.buffer, panic |-> PanicVersion]
    ELSE IF U32Less(U32Of(MaxMessageBodySize), r.o.header.BodySize)
    THEN [o |-> r.o, buffer |-> r.buffer, panic |-> PanicBodySize]
    ELSE [o |-> [r.o EXCEPT !.bodyBuffer = [size |-> r.o.header.BodySize, data |-> <<>>]],
          buffer |-> r.buffer, panic |-> ""]

\* Lines 220-242: while acquiring a header, the header loop and the checks.
acquireHeader(o, buffer) ==
    IF o.parserPhase # ParserAcquiringHeader THEN [o |-> o, buffer |-> buffer, panic |-> ""]
    ELSE checkHeader(headerLoop(o, buffer))

\* Lines 249-251: the packets lost before this one are added to the count.
countPacket(o) ==
    [o EXCEPT !.lastSequenceNumber = o.header.PacketNumber,
              !.droppedBuffers =
                  U32Add(@, U32Sub(U32Sub(o.header.PacketNumber, o.lastSequenceNumber),
                                   U32Of(1)))]

\* Line 255: the outcome h of handleNewMessage, with the bytes that are left.
handled(h, rest, out) ==
    [o |-> h.o, buffer |-> rest,
     out |-> IF h.event = "skipped" \/ h.panic # "" THEN out
             ELSE Append(out, Dispatch(h.o, h.event)),
     panic |-> h.panic]

\* Lines 246-256: after parseBody returned r; when the body is complete,
\* account for the packet number and handle the message.
bodyRead(r, buffer, out) ==
    IF r.o.parserPhase # ParserAcquiringHeader
    THEN [o |-> r.o, buffer |-> SubSeq(buffer, r.consumed + 1, Len(buffer)),
          out |-> out, panic |-> ""]
    ELSE handled(handleNewMessage(countPacket(r.o)),
                 SubSeq(buffer, r.consumed + 1, Len(buffer)), out)

\* Lines 244-257: while reading data, parseBody and what follows it.
readData(o, buffer, out) ==
    IF o.parserPhase # ParserReadingData
    THEN [o |-> o, buffer |-> buffer, out |-> out, panic |-> ""]
    ELSE bodyRead(parseBody(o, buffer), buffer, out)

\* The second half of a round, given the outcome a of the first.
afterHeader(a, out) ==
    IF a.panic # "" THEN [o |-> a.o, buffer |-> a.buffer, out |-> out, panic |-> a.panic]
    ELSE readData(a.o, a.buffer, out)

\* One round of parseMessage's loop (lines 220-257).
parseRound(o, buffer, out) == afterHeader(acquireHeader(o, buffer), out)

\* parseMessage's loop (line 219) from a given state. It returns, or it
\* panics, or it spins: a round that changes neither the parser nor the
\* buffer is repeated for as long as terminated stays false.
RECURSIVE parseLoop(_, _, _)
RECURSIVE loopNext(_, _, _, _)
parseLoop(o, buffer, out) ==
    IF Len(buffer) = 0 \/ o.terminated
    THEN [o |-> o, buffer |-> <<>>, out |-> out, status |-> "returned", panic |-> ""]
    ELSE loopNext(o, buffer, out, parseRound(o, buffer, out))

\* After a round with outcome r.
loopNext(o, buffer, out, r) ==
    IF r.panic # ""
    THEN [o |-> r.o, buffer |-> r.buffer, out |-> r.out, status |-> "panicked",
          panic |-> r.panic]
    ELSE IF r.o = o /\ r.buffer = buffer
    THEN [o |-> o, buffer |-> buffer, out |-> out, status |-> "spinning", panic |-> ""]
    ELSE parseLoop(r.o, r.buffer, r.out)

\* parseMessage: count the chunk, then the loop.
parseMessage(o, buffer, out) ==
    parseLoop([o EXCEPT !.downStreamBytes = @ + 1], buffer, out)

\* ------------------------------------------------ commands
\* A sendCommand that finds no connection returns true all the same.
sendCommandNoNilCheck(o, cs, cmd, args) ==
    IF o.client = 0 THEN [cs |-> cs, ok |-> TRUE]
    ELSE IF cs[o.client].closed THEN [cs |-> cs, ok |-> FALSE]
    ELSE [cs |-> [cs EXCEPT ![o.client].written = Append(@, EncodeCommand(cmd, args))],
          ok |-> TRUE]

\* sendCommand: nothing without a connection; else the command header and
\* the arguments are written to f.client (a write to a closed connection
\* fails and writes nothing).
sendCommand(o, cs, cmd, args) ==
    IF o.client = 0 THEN [cs |-> cs, ok |-> FALSE]
    ELSE IF cs[o.client].closed THEN [cs |-> cs, ok |-> FALSE]
    ELSE [cs |-> [cs EXCEPT ![o.client].written = Append(@, EncodeCommand(cmd, args))],
          ok |-> TRUE]

\* sayHello: CmdHello with the protocol version and the software name.
sayHello(o, cs) ==
    sendCommand(o, cs, CmdHello, GenProtocolVersion(CurrentProtocolVersion) \o softwareName)

\* The loop of setSetting (lines 168-170): each parameter, little-endian.
RECURSIVE PutParams(_)
PutParams(params) ==
    IF params = <<>> THEN <<>> ELSE PutU32(Head(params)) \o PutParams(Tail(params))

\* A setSetting that writes the setting also when there is no parameter.
setSettingAlwaysType(o, cs, settingType, params) ==
    sendCommand(o, cs, CmdSetSetting, PutU32(U32Of(settingType)) \o PutParams(params))

\* setSetting: CmdSetSetting with the setting and its parameters, and with no
\* argument bytes at all when there is no parameter.
setSetting(o, cs, settingType, params) ==
    sendCommand(o, cs, CmdSetSetting,
                IF Len(params) > 0 THEN PutU32(U32Of(settingType)) \o PutParams(params)
                ELSE <<>>)

\* onConnect: send the streaming mode and the smart decimation, and list the
\* sample rates MaximumSampleRate / 2^i of the decimation stages (sample
\* rates below 2^24, which float32 holds exactly).
onConnect(o, cs) ==
    [o  |-> [o EXCEPT !.availableSampleRates =
                [i \in 1..U32Nat(o.deviceInfo.DecimationStages) |->
                    U32Nat(o.deviceInfo.MaximumSampleRate) \div (2 ^ (i - 1))]],
     cs |-> setSetting(o, setSetting(o, cs, SettingStreamingMode,
                                     <<U32Of(o.streamingMode)>>).cs,
                       SettingSmartDecimation, <<U32Of(1)>>).cs]

\* Disconnect's body: terminated, close the connection if one was ever made,
\* routineRunning off, cleanup.
disconnect(o, cs) ==
    [o  |-> cleanup([o EXCEPT !.terminated = TRUE, !.routineRunning = FALSE]),
     cs |-> IF o.IsConnected THEN [cs EXCEPT ![o.client].closed = TRUE] ELSE cs]

\* ------------------------------------------------ the foreground
Conns == 1..MaxConnects

Alive == panicMsg = ""

\* Connect (lines 483-509): nothing while a consumer runs; panic when the
\* dial fails; else hello, cleanup, the flags, and the consumer is started.
Connect(dialOk) ==
    /\ Alive
    /\ fpc \in {"idle", "connected", "failed"}
    /\ Len(conns) < MaxConnects
    /\ IF f.routineRunning
       THEN UNCHANGED <<f, conns, cpc, fpc, polls, connectError>>
       ELSE IF ~dialOk
       THEN /\ fpc' = "failed"
            /\ connectError' = PanicDial
            /\ UNCHANGED <<f, conns, cpc, polls>>
       ELSE LET id == Len(conns) + 1
                o1 == [f EXCEPT !.client = id, !.IsConnected = TRUE]
                cs == Append(conns, [rx |-> 0, closed |-> FALSE, written |-> <<>>])
            IN  /\ conns' = sayHello(o1, cs).cs
                /\ f' = [cleanup(o1) EXCEPT !.terminated = FALSE, !.gotSyncInfo = FALSE,
                                            !.gotDeviceInfo = FALSE, !.routineRunning = TRUE]
                /\ cpc' = [cpc EXCEPT ![id] = "spawned"]
                /\ fpc' = "polling"
                /\ polls' = 0
                /\ connectError' = ""
    /\ UNCHANGED <<tbuf, panicMsg, stream, dispatched>>
    /\ UNCHANGED <<serverVars, calls>>

\* A Connect that returns as connected when its wait runs out.
ConnectPollGivesUp ==
    /\ Alive
    /\ fpc = "polling"
    /\ IF polls < PollLimit /\ f.gotDeviceInfo /\ f.deviceInfo.DeviceType = U32Of(DeviceInvalid)
       THEN /\ f' = disconnect(f, conns).o
            /\ conns' = disconnect(f, conns).cs
            /\ fpc' = "failed"
            /\ connectError' = PanicNoDevice
            /\ UNCHANGED polls
       ELSE IF polls < PollLimit /\ f.gotDeviceInfo /\ f.gotSyncInfo
       THEN /\ f' = onConnect(f, conns).o
            /\ conns' = onConnect(f, conns).cs
            /\ fpc' = "connected"
            /\ UNCHANGED <<polls, connectError>>
       ELSE IF polls < PollLimit
       THEN /\ polls < PollsTraced
            /\ polls' = polls + 1
            /\ UNCHANGED <<f, conns, fpc, connectError>>
       ELSE /\ f' = onConnect(f, conns).o
            /\ conns' = onConnect(f, conns).cs
            /\ fpc' = "connected"
            /\ UNCHANGED <<polls, connectError>>
    /\ UNCHANGED <<cpc, tbuf, panicMsg, stream, dispatched>>
    /\ UNCHANGED <<serverVars, calls>>

\* One round of Connect's wait (lines 510-524), and what follows the loop
\* (lines 526-531). The first PollsTraced sleeping rounds are taken one by one.
ConnectPoll ==
    /\ Alive
    /\ fpc = "polling"
    /\ IF polls < PollLimit /\ f.gotDeviceInfo /\ f.deviceInfo.DeviceType = U32Of(DeviceInvalid)
       THEN /\ f' = disconnect(f, conns).o
            /\ conns' = disconnect(f, conns).cs
            /\ fpc' = "failed"
            /\ connectError' = PanicNoDevice
            /\ UNCHANGED polls
       ELSE IF polls < PollLimit /\ f.gotDeviceInfo /\ f.gotSyncInfo
       THEN /\ f' = onConnect(f, conns).o
            /\ conns' = onConnect(f, conns).cs
            /\ fpc' = "connected"
            /\ UNCHANGED <<polls, connectError>>
       ELSE IF polls < PollLimit
       THEN /\ polls < PollsTraced
            /\ polls' = polls + 1
            /\ UNCHANGED <<f, conns, fpc, connectError>>
       ELSE /\ f' = disconnect(f, conns).o
            /\ conns' = disconnect(f, conns).cs
            /\ fpc' = "failed"
            /\ connectError' = PanicNoInfo
            /\ UNCHANGED polls
    /\ UNCHANGED <<cpc, tbuf, panicMsg, stream, dispatched>>
    /\ UNCHANGED <<serverVars, calls>>

\* The rounds that are left, when none of them finds the device info: the
\* foreground sleeps through them while no other goroutine gets to run.
ConnectWait ==
    /\ Alive
    /\ fpc = "polling"
    /\ polls < PollLimit
    /\ ~f.gotDeviceInfo \/ (f.deviceInfo.DeviceType # U32Of(DeviceInvalid) /\ ~f.gotSyncInfo)
    /\ polls' = PollLimit
    /\ UNCHANGED <<f, conns, cpc, tbuf, fpc, connectError, panicMsg, stream, dispatched>>
    /\ UNCHANGED <<serverVars, calls>>

\* Disconnect (lines 535-544), called by the foreground outside Connect.
Disconnect ==
    /\ Alive
    /\ fpc \in {"idle", "connected", "failed"}
    /\ f' = disconnect(f, conns).o
    /\ conns' = disconnect(f, conns).cs
    /\ fpc' = "idle"
    /\ UNCHANGED <<cpc, tbuf, polls, connectError, panicMsg, stream, dispatched>>
    /\ UNCHANGED <<serverVars, calls>>

\* ------------------------------------------------ the background consumer
\* A threadLoop that starts with the cursor at the end of the header buffer.
ThreadStartAtHeaderEnd(t) ==
    /\ Alive
    /\ cpc[t] = "spawned"
    /\ f' = [f EXCEPT !.parserPhase = ParserAcquiringHeader,
                      !.parserPosition = MessageHeaderSize]
    /\ cpc' = [cpc EXCEPT ![t] = "loop"]
    /\ UNCHANGED <<conns, tbuf, fpc, polls, connectError, panicMsg, stream, dispatched>>
    /\ UNCHANGED <<serverVars, calls>>

\* threadLoop's entry (lines 426-429).
ThreadStart(t) ==
    /\ Alive
    /\ cpc[t] = "spawned"
    /\ f' = [f EXCEPT !.parserPhase = ParserAcquiringHeader, !.parserPosition = 0]
    /\ cpc' = [cpc EXCEPT ![t] = "loop"]
    /\ UNCHANGED <<conns, tbuf, fpc, polls, connectError, panicMsg, stream, dispatched>>
    /\ UNCHANGED <<serverVars, calls>>

\* The loop's condition (lines 431-434).
ThreadLoopHead(t) ==
    /\ Alive
    /\ cpc[t] = "loop"
    /\ cpc' = [cpc EXCEPT ![t] = IF f.routineRunning /\ ~f.terminated THEN "reading"
                                 ELSE "closing"]
    /\ UNCHANGED <<f, conns, tbuf, fpc, polls, connectError, panicMsg, stream, dispatched>>
    /\ UNCHANGED <<serverVars, calls>>

\* The chunk sizes a Read returns when avail bytes are to come.
ChunkSizes(avail) == {n \in {1, 7, 25, 31, avail} : n >= 1 /\ n <= avail /\ n <= ReadBufferSize}

\* What a parseMessage outcome r leaves for consumer t.
Parsed(t, r) ==
    /\ f' = r.o
    /\ dispatched' = r.out
    /\ tbuf' = [tbuf EXCEPT ![t] = IF r.status = "spinning" THEN r.buffer ELSE <<>>]
    /\ cpc' = [cpc EXCEPT ![t] = IF r.status = "returned" THEN "loop" ELSE r.status]
    /\ panicMsg' = r.panic

\* f.client.Read and parseMessage (lines 436-447): an error when the
\* connection was closed or the peer has sent everything and closed; else a
\* chunk of n bytes goes through parseMessage.
ThreadRead(t) ==
    /\ Alive
    /\ cpc[t] = "reading"
    /\ LET c == f.client
           avail == Len(stream) - conns[c].rx
       IN  IF conns[c].closed \/ avail = 0
           THEN /\ cpc' = [cpc EXCEPT ![t] = "closing"]
                /\ UNCHANGED <<f, conns, tbuf, panicMsg, dispatched>>
           ELSE \E n \in ChunkSizes(avail) :
                  /\ conns' = [conns EXCEPT ![c].rx = @ + n]
                  /\ Parsed(t, parseMessage(f, SubSeq(stream, conns[c].rx + 1,
                                                      conns[c].rx + n), dispatched))
    /\ UNCHANGED <<fpc, polls, connectError, stream>>
    /\ UNCHANGED <<serverVars, calls>>

\* A consumer spinning in parseMessage's loop gets on once a round differs:
\* once another goroutine has changed the fields the loop reads.
ThreadSpin(t) ==
    /\ Alive
    /\ cpc[t] = "spinning"
    /\ LET r == parseLoop(f, tbuf[t], dispatched)
       IN  r.status # "spinning" /\ Parsed(t, r)
    /\ UNCHANGED <<conns, fpc, polls, connectError, stream>>
    /\ UNCHANGED <<serverVars, calls>>

\* threadLoop's exit (lines 449-451).
ThreadClose(t) ==
    /\ Alive
    /\ cpc[t] = "closing"
    /\ f' = cleanup([f EXCEPT !.routineRunning = FALSE])
    /\ cpc' = [cpc EXCEPT ![t] = "exited"]
    /\ UNCHANGED <<conns, tbuf, fpc, polls, connectError, panicMsg, stream, dispatched>>
    /\ UNCHANGED <<serverVars, calls>>

\* ------------------------------------------------ what the server sends
\* A frame as the server encodes it: the header, then the body.
Frame(pn, version, type, body) ==
    EncodeHeader([PacketNumber |-> pn, ProtocolVersion |-> GenProtocolVersion(version),
                  MessageType |-> U32Of(type), Reserved |-> U32Of(0),
                  BodySize |-> U32Of(Len(body))]) \o body

\* A header alone, declaring a body of size bytes.
HeaderOf(pn, type, size) ==
    EncodeHeader([PacketNumber |-> pn,
                  ProtocolVersion |-> GenProtocolVersion(CurrentProtocolVersion),
                  MessageType |-> U32Of(type), Reserved |-> U32Of(0),
                  BodySize |-> U32Of(size)])

V == CurrentProtocolVersion

\* One IQ sample (1, -2) and another (258, -32768).
IQBodyA == <<1, 0, 254, 255>>
IQBodyB == <<2, 1, 0, 128>>

\* A DeviceInfo record: device type dt, serial 7, 10000 samples per second,
\* frequencies 24..1800, two decimation stages, and the four fields after them.
DeviceInfoBody(dt) ==
    PutU32(U32Of(dt)) \o PutU32(U32Of(7)) \o PutU32(U32Of(10000)) \o PutU32(U32Of(24))
        \o PutU32(U32Of(1800)) \o PutU32(U32Of(2)) \o PutU32(U32Of(0)) \o PutU32(U32Of(0))
        \o PutU32(U32Of(0)) \o PutU32(U32Of(0))

\* A ClientSync record: control allowed, gains 3 0 0, the five frequencies
\* and bounds that follow.
ClientSyncBody ==
    PutU32(U32Of(1)) \o PutU32(U32Of(3)) \o PutU32(U32Of(0)) \o PutU32(U32Of(0))
        \o PutU32(U32Of(100)) \o PutU32(U32Of(100)) \o PutU32(U32Of(100))
        \o PutU32(U32Of(24)) \o PutU32(U32Of(1800)) \o PutU32(U32Of(30)) \o PutU32(U32Of(1700))

Streams ==
    { <<>>,
      \* two frames in sequence, numbered 0 and 1
      Frame(U32Of(0), V, MsgTypeIQ, IQBodyA) \o Frame(U32Of(1), V, MsgTypeIQ, IQBodyB),
      \* a gap of two: 0 then 3
      Frame(U32Of(0), V, MsgTypeIQ, IQBodyA) \o Frame(U32Of(3), V, MsgTypeIQ, IQBodyB),
      \* the wrap: 0, a gap up to 0xFFFFFFFF, then 0 again
      Frame(U32Of(0), V, MsgTypeIQ, IQBodyA) \o Frame(U32Max, V, MsgTypeIQ, IQBodyB)
          \o Frame(U32Of(0), V, MsgTypeSmartIQ, IQBodyA),
      \* a header declaring 2^20 + 1 bytes, and one declaring 2^20
      HeaderOf(U32Of(0), MsgTypeIQ, MaxMessageBodySize + 1) \o IQBodyA,
      HeaderOf(U32Of(0), MsgTypeIQ, MaxMessageBodySize) \o IQBodyA,
      \* the minor version differs; the major differs; only the hash differs
      Frame(U32Of(0), [V EXCEPT !.Minor = U32Of(2)], MsgTypeIQ, IQBodyA),
      Frame(U32Of(0), [V EXCEPT !.Major = U32Of(1)], MsgTypeIQ, IQBodyA),
      Frame(U32Of(0), [V EXCEPT !.Hash = U32Max], MsgTypeIQ, IQBodyA),
      \* the handshake, then samples
      Frame(U32Of(0), V, MsgTypeDeviceInfo, DeviceInfoBody(1))
          \o Frame(U32Of(1), V, MsgTypeClientSync, ClientSyncBody)
          \o Frame(U32Of(2), V, MsgTypeIQ, IQBodyA),
      \* no device
      Frame(U32Of(0), V, MsgTypeDeviceInfo, DeviceInfoBody(DeviceInvalid)),
      \* a frame without a body, a ReadSetting, a type the client does not know
      HeaderOf(U32Of(0), MsgTypeIQ, 0) \o Frame(U32Of(1), V, MsgTypeReadSetting, IQBodyA)
          \o Frame(U32Of(2), V, 9, IQBodyB) }

\* ------------------------------------------------ the client's specification
ClientInit(s) ==
    /\ f = MakeRadioClient
    /\ conns = <<>>
    /\ cpc = [t \in Conns |-> "none"]
    /\ tbuf = [t \in Conns |-> <<>>]
    /\ fpc = "idle"
    /\ polls = 0
    /\ connectError = ""
    /\ panicMsg = ""
    /\ stream = s
    /\ dispatched = <<>>
    /\ calls = <<>>

InitClient == ServerInit /\ \E s \in Streams : ClientInit(s)

NextClient ==
    \/ \E dialOk \in BOOLEAN : Connect(dialOk)
    \/ ConnectPoll
    \/ ConnectWait
    \/ Disconnect
    \/ \E t \in Conns : ThreadStart(t)
    \/ \E t \in Conns : ThreadLoopHead(t)
    \/ \E t \in Conns : ThreadRead(t)
    \/ \E t \in Conns : ThreadSpin(t)
    \/ \E t \in Conns : ThreadClose(t)

SpecClient == InitClient /\ [][NextClient]_vars

InitServer == ServerInit /\ ClientInit(<<>>)

SpecServer == InitServer /\ [][NextServer]_vars

\* The server with its RXIQ goroutines scheduled: a step of a delivery loop or
\* of its deferred cleanup that stays possible is taken. Each of these steps
\* moves the call's position or ends the process.
FairServer ==
    \A c \in Calls :
        /\ WF_<<pc, crashed>>(RXIQSend(c))
        /\ WF_<<pc, crashed>>(RXIQAfterSend(c))
        /\ WF_<<pc, crashed>>(RXIQDeferFullStop(c))
        /\ WF_<<pc, crashed>>(RXIQDeferDelete(c))

SpecServerFair == InitServer /\ [][NextServer]_vars /\ FairServer

\* ------------------------------------------------ the delivery loop
\* Provision and RXIQ with a device that queues up to MaxQueued buffers a
\* session, so that a loop finds several buffers waiting.
MaxQueued == 2

NextDelivery ==
    \/ \E c \in Calls, d \in Configs : ProvisionBegin(c, d)
    \/ \E c \in Calls : ProvisionInsert(c)
    \/ \E c \in Calls, t \in Tokens : RXIQLookup(c, t)
    \/ \E c \in Calls : RXIQStartIQ(c)
    \/ \E c \in Calls : RXIQSend(c)
    \/ \E c \in Calls : RXIQAfterSend(c)
    \/ \E c \in Calls : RXIQDeferFullStop(c)
    \/ \E c \in Calls : RXIQDeferDelete(c)
    \/ \E c \in Calls : Finish(c)
    \/ \E s \in Tokens : DeviceProduceUpTo(s, MaxQueued)
    \/ \E s \in Tokens : SessionExpire(s)

SpecDelivery == InitServer /\ [][NextDelivery]_vars



\* ------------------------------------------------ the command encoder
\* sendCommand, setSetting and sayHello called one at a time on a client that
\* was never connected, on one whose connection Connect has just dialled
\* (lines 494-495), and on one that Disconnect has closed since.
MaxCalls == 2

Dialled ==
    [o  |-> [MakeRadioClient EXCEPT !.client = 1, !.IsConnected = TRUE],
     cs |-> <<[rx |-> 0, closed |-> FALSE, written |-> <<>>]>>]

InitCommand ==
    /\ ServerInit
    /\ \/ f = MakeRadioClient /\ conns = <<>>
       \/ f = Dialled.o /\ conns = Dialled.cs
       \/ /\ f = disconnect(Dialled.o, Dialled.cs).o
          /\ conns = disconnect(Dialled.o, Dialled.cs).cs
    /\ cpc = [t \in Conns |-> "none"]
    /\ tbuf = [t \in Conns |-> <<>>]
    /\ fpc = "idle"
    /\ polls = 0
    /\ connectError = ""
    /\ panicMsg = ""
    /\ stream = <<>>
    /\ dispatched = <<>>
    /\ calls = <<>>

\* The argument bytes and the parameter lists the calls are made with.
ArgLists == {<<>>, <<1, 2, 3>>}

ParamLists == {<<>>, <<U32Of(1)>>, <<U32Max>>, <<U32Of(3), U32Of(0), U32Of(0)>>}

\* A call: what it wrote, and the call with what it returned.
Called(name, arg, r) ==
    /\ Alive
    /\ Len(calls) < MaxCalls
    /\ conns' = r.cs
    /\ calls' = Append(calls, [op |-> name, arg |-> arg, ret |-> r.ok])
    /\ UNCHANGED <<f, cpc, tbuf, fpc, polls, connectError, panicMsg, stream, dispatched>>
    /\ UNCHANGED serverVars

CallSendCommand(cmd, args) ==
    Called("sendCommand", <<cmd, args>>, sendCommand(f, conns, cmd, args))

CallSetSetting(settingType, params) ==
    Called("setSetting", <<settingType, params>>, setSetting(f, conns, settingType, params))

CallSayHello == Called("sayHello", <<>>, sayHello(f, conns))

NextCommand ==
    \/ \E cmd \in {CmdHello, CmdSetSetting}, args \in ArgLists : CallSendCommand(cmd, args)
    \/ \E settingType \in {SettingStreamingMode, SettingSmartDecimation}, params \in ParamLists :
            CallSetSetting(settingType, params)
    \/ CallSayHello

SpecCommand == InitCommand /\ [][NextCommand]_vars

\* ------------------------------------------------ the decimation setters
\* SetDecimationStage and SetSmartDecimation called one at a time on a client
\* that was never connected, is connected, or was disconnected. A call is
\* recorded with what it returned: <<v>>, or <<>> when it panicked.
MaxDecimation == 3

Decimations == 0..MaxDecimation

Returned(name, d, r) ==
    /\ calls' = Append(calls, [op |-> name, arg |-> d, ret |-> r])
    /\ UNCHANGED <<cpc, tbuf, fpc, polls, connectError, stream, dispatched>>
    /\ UNCHANGED serverVars

\* SetDecimationStage (lines 574-583): Invalid when decimation is above the
\* number of stages; else the stage is stored, the setting is sent, and the
\* sample rate is read from the table at index decimation, which panics when
\* the table has no such index.
SetDecimationStage(d) ==
    /\ Alive
    /\ Len(calls) < MaxCalls
    /\ IF U32Less(f.deviceInfo.DecimationStages, U32Of(d))
       THEN /\ UNCHANGED <<f, conns, panicMsg>>
            /\ Returned("SetDecimationStage", d, <<Invalid>>)
       ELSE /\ conns' = setSetting([f EXCEPT !.channelDecimation = d], conns,
                                   SettingIqDecimation, <<U32Of(d)>>).cs
            /\ IF d < Len(f.availableSampleRates)
               THEN /\ f' = [f EXCEPT !.channelDecimation = d,
                                      !.currentSampleRate = f.availableSampleRates[d + 1]]
                    /\ UNCHANGED panicMsg
                    /\ Returned("SetDecimationStage", d, <<d>>)
               ELSE /\ f' = [f EXCEPT !.channelDecimation = d]
                    /\ panicMsg' = "index out of range"
                    /\ Returned("SetDecimationStage", d, <<>>)

\* SetSmartDecimation (lines 670-679): the same with the smart fields.
SetSmartDecimation(d) ==
    /\ Alive
    /\ Len(calls) < MaxCalls
    /\ IF U32Less(f.deviceInfo.DecimationStages, U32Of(d))
       THEN /\ UNCHANGED <<f, conns, panicMsg>>
            /\ Returned("SetSmartDecimation", d, <<Invalid>>)
       ELSE /\ conns' = setSetting([f EXCEPT !.smartDecimation = d], conns,
                                   SettingSmartDecimation, <<U32Of(d)>>).cs
            /\ IF d < Len(f.availableSampleRates)
               THEN /\ f' = [f EXCEPT !.smartDecimation = d,
                                      !.currentSmartSampleRate = f.availableSampleRates[d + 1]]
                    /\ UNCHANGED panicMsg
                    /\ Returned("SetSmartDecimation", d, <<d>>)
               ELSE /\ f' = [f EXCEPT !.smartDecimation = d]
                    /\ panicMsg' = "index out of range"
                    /\ Returned("SetSmartDecimation", d, <<>>)

NextDecimation ==
    \/ \E d \in Decimations : SetDecimationStage(d)
    \/ \E d \in Decimations : SetSmartDecimation(d)

SpecDecimation == InitCommand /\ [][NextDecimation]_vars


\* ------------------------------------------------ the protocol version
\* GenProtocolVersion and SplitProtocolVersion applied one at a time: to
\* versions whose major and minor fit a byte, and to the packed values made.
Majors == {0, 1, 255}

Minors == {0, 1, 255}

Hashes == {U32Of(0), U32Of(1), [hi |-> 1, lo |-> 0], U32Max}

Versions == [Major : {U32Of(n) : n \in Majors}, Minor : {U32Of(n) : n \in Minors},
             Hash : Hashes]

InitVersion == InitServer

\* Version.ToUint64 (lines 12-14): the version packed.
CallGenProtocolVersion(v) ==
    /\ Len(calls) < MaxCalls
    /\ calls' = Append(calls, [op |-> "GenProtocolVersion", arg |-> v,
                               ret |-> GenProtocolVersion(v)])
    /\ UNCHANGED <<f, conns, cpc, tbuf, fpc, polls, connectError, panicMsg, stream,
                   dispatched>>
    /\ UNCHANGED serverVars

\* SplitProtocolVersion of a value that was packed before.
CallSplitProtocolVersion(i) ==
    /\ i \in DOMAIN calls
    /\ calls[i].op = "GenProtocolVersion"
    /\ Len(calls) < MaxCalls + 1
    /\ calls[Len(calls)].op = "GenProtocolVersion"
    /\ calls' = Append(calls, [op |-> "SplitProtocolVersion", arg |-> calls[i].ret,
                               ret |-> SplitProtocolVersion(calls[i].ret)])
    /\ UNCHANGED <<f, conns, cpc, tbuf, fpc, polls, connectError, panicMsg, stream,
                   dispatched>>
    /\ UNCHANGED serverVars

NextVersion ==
    \/ \E v \in Versions : CallGenProtocolVersion(v)
    \/ \E i \in 1..MaxCalls : CallSplitProtocolVersion(i)

SpecVersion == InitVersion /\ [][NextVersion]_vars




\* ================================================================ claims
\* ------------------------------------------------ the frame parser
\* The first connection, between Connect and its end: the bytes given to
\* parseMessage so far, and the consumer being in or between parseMessage calls.
Fed == IF Len(conns) = 0 THEN <<>> ELSE SubSeq(stream, 1, conns[1].rx)

Feeding ==
    /\ Len(conns) = 1
    /\ ~f.terminated
    /\ cpc[1] \in {"loop", "reading", "spinning", "panicked"}

VersionOk(h) ==
    /\ SplitProtocolVersion(h.ProtocolVersion).Major = CurrentProtocolVersion.Major
    /\ SplitProtocolVersion(h.ProtocolVersion).Minor = CurrentProtocolVersion.Minor

SizeOk(h) == ~U32Less(U32Of(MaxMessageBodySize), h.BodySize)

\* The wire format read directly: the frames that are complete in a byte
\* sequence, up to the first header that must be rejected.
RECURSIVE RefFrames(_)
RefFrames(b) ==
    IF Len(b) < MessageHeaderSize THEN <<>>
    ELSE LET h == DecodeHeader(SubSeq(b, 1, MessageHeaderSize))
             end == MessageHeaderSize + U32Nat(h.BodySize)
         IN  IF ~VersionOk(h) \/ ~SizeOk(h) \/ Len(b) < end THEN <<>>
             ELSE <<[header |-> h, body |-> SubSeq(b, MessageHeaderSize + 1, end)]>>
                      \o RefFrames(SubSeq(b, end + 1, Len(b)))

\* The header completed last in a byte sequence: the first one that must be
\* rejected, else the one of the frame the sequence ends in (ZeroHeader when
\* no header is complete).
RECURSIVE RefLastHeader(_)
RefLastHeader(b) ==
    IF Len(b) < MessageHeaderSize THEN ZeroHeader
    ELSE LET h == DecodeHeader(SubSeq(b, 1, MessageHeaderSize))
             end == MessageHeaderSize + U32Nat(h.BodySize)
         IN  IF ~VersionOk(h) \/ ~SizeOk(h) \/ Len(b) < end + MessageHeaderSize THEN h
             ELSE RefLastHeader(SubSeq(b, end + 1, Len(b)))

HeaderCompleted(b) == Len(b) >= MessageHeaderSize

\* Every byte of the stream belongs to a frame with a supported version and
\* a body of at most MaxMessageBodySize bytes.
RECURSIVE FrameBytes(_)
FrameBytes(fr) ==
    IF Len(fr) = 0 THEN 0
    ELSE MessageHeaderSize + Len(fr[1].body) + FrameBytes(Tail(fr))

ValidFrames(b) == FrameBytes(RefFrames(b)) = Len(b)

\* The lost packets the frames of fr add up to, after packet number last.
RECURSIVE RefDropped(_, _)
RefDropped(fr, last) ==
    IF Len(fr) = 0 THEN U32Of(0)
    ELSE U32Add(U32Sub(U32Sub(fr[1].header.PacketNumber, last), U32Of(1)),
                RefDropped(Tail(fr), fr[1].header.PacketNumber))

Delivered == [i \in 1..Len(dispatched) |->
                [header |-> dispatched[i].header, body |-> dispatched[i].body]]

\* C1: whatever chunks the bytes of a sequence of valid frames arrive in, the
\* messages dispatched so far are exactly the frames complete in the bytes
\* fed so far, in order, each with its header and its body.
C1_OneDispatchPerFrame ==
    (Feeding /\ ValidFrames(stream)) => Delivered = RefFrames(Fed)

\* C2: the dropped-buffer counter is the sum of (q - p - 1) mod 2^32 over the
\* frames completed so far (p the packet number before q, 0xFFFFFFFF before
\* the first), the last packet number is remembered, and no gap is a failure.
C2_DroppedCountsGaps ==
    (Feeding /\ ValidFrames(stream)) =>
        /\ panicMsg = ""
        /\ f.droppedBuffers = RefDropped(RefFrames(Fed), U32Max)
        /\ Len(RefFrames(Fed)) > 0 =>
              f.lastSequenceNumber = RefFrames(Fed)[Len(RefFrames(Fed))].header.PacketNumber

\* C3: once a header declaring more than 2^20 body bytes is complete, the
\* parser has failed with the body-size panic, having allocated no body
\* buffer for it and dispatched nothing of it; a header declaring exactly
\* 2^20 bytes is accepted and its body is being read.
C3_OversizeBodyIsFatal ==
    (Feeding /\ HeaderCompleted(Fed) /\ VersionOk(RefLastHeader(Fed))) =>
        /\ ~SizeOk(RefLastHeader(Fed)) =>
              /\ panicMsg = PanicBodySize
              /\ f.bodyBuffer.size # RefLastHeader(Fed).BodySize
              /\ Delivered = RefFrames(Fed)
        /\ RefLastHeader(Fed).BodySize = U32Of(MaxMessageBodySize) =>
              /\ panicMsg = ""
              /\ f.parserPhase = ParserReadingData
              /\ f.bodyBuffer.size = U32Of(MaxMessageBodySize)

\* C4: once a header whose major or minor version differs from the local
\* one is complete, the parser has failed with the version panic and
\* dispatched nothing of that frame; a frame that differs in the build hash
\* only is dispatched like any other.
C4_VersionMismatchIsFatal ==
    (Feeding /\ HeaderCompleted(Fed)) =>
        /\ ~VersionOk(RefLastHeader(Fed)) =>
              /\ panicMsg = PanicVersion
              /\ Delivered = RefFrames(Fed)
        /\ (/\ VersionOk(RefLastHeader(Fed))
            /\ SplitProtocolVersion(RefLastHeader(Fed).ProtocolVersion).Hash
                   # CurrentProtocolVersion.Hash
            /\ ValidFrames(stream)) =>
              /\ panicMsg = ""
              /\ Delivered = RefFrames(Fed)

\* ------------------------------------------------ the session registry

\* C5: a successful Provision returns a token no Provision returned before and
\* registers the new session under it, leaving every other entry and every
\* session as it was; a Destroy removes only its own entry and stops only its
\* own session.
C5_ProvisionDestroyIsolated ==
    [][\A c \in Calls :
         /\ (pc[c] = "prov_insert" /\ pc'[c] = "done") =>
              /\ result'[c] = "ok"
              /\ tok'[c] \notin issued
              /\ DOMAIN sessions' = DOMAIN sessions \cup {tok'[c]}
              /\ sessions'[tok'[c]] = sref[c]
              /\ \A k \in DOMAIN sessions : k # tok'[c] => sessions'[k] = sessions[k]
              /\ heap' = heap
         /\ (pc[c] = "destroy_delete" /\ pc'[c] = "destroy_stop") =>
              /\ DOMAIN sessions' = DOMAIN sessions \ {tok[c]}
              /\ \A k \in DOMAIN sessions' : sessions'[k] = sessions[k]
              /\ heap' = heap
         /\ (pc[c] = "destroy_stop" /\ pc'[c] = "done") =>
              /\ sessions' = sessions
              /\ heap'[sref[c]].fullStopped
              /\ \A s \in DOMAIN heap : s # sref[c] => heap'[s] = heap[s]
      ]_vars

\* C5's case: two sessions provisioned with the same DeviceState, one of them
\* destroyed, the other still registered and not stopped.
C5_Witness ==
    \E c \in Calls, t \in DOMAIN sessions :
        /\ op[c] = "Destroy" /\ pc[c] = "done" /\ result[c] = "ok"
        /\ issued = {t, tok[c]} /\ t # tok[c]
        /\ heap[t].config = heap[tok[c]].config
        /\ heap[tok[c]].fullStopped /\ ~heap[t].fullStopped

\* C6: a Destroy or a Tune of a token that is not registered returns the
\* no-such-session error and changes neither the registry nor any session; a
\* Provision that fails adds no entry.
C6_UnknownTokenNoEffect ==
    [][\A c \in Calls :
         /\ (/\ pc[c] = "idle" /\ op'[c] \in {"Destroy", "Tune"}
             /\ tok'[c] \notin DOMAIN sessions /\ crashed' = "no") =>
              /\ pc'[c] = "done" /\ result'[c] = "err_nosession"
              /\ sessions' = sessions /\ heap' = heap /\ sessionLock' = sessionLock
         /\ (pc[c] = "idle" /\ op'[c] = "Provision" /\ pc'[c] = "done") =>
              /\ result'[c] = "err_provision"
              /\ sessions' = sessions /\ heap' = heap /\ issued' = issued
      ]_vars

\* C6's case: with a session registered, a Destroy and a Tune of unknown tokens
\* have both returned their error.
C6_Witness ==
    \E c, b \in Calls :
        /\ op[c] = "Destroy" /\ pc[c] = "done" /\ result[c] = "err_nosession"
        /\ op[b] = "Tune" /\ pc[b] = "done" /\ result[b] = "err_nosession"
        /\ DOMAIN sessions # {}

\* The call runs the RXIQ delivery loop.
InLoop(c) == pc[c] \in {"rxiq_loop", "rxiq_sent"}

\* C7: at most one RXIQ delivery loop is active for a session.
C7_OneLoopPerSession ==
    \A c, b \in Calls : (c # b /\ InLoop(c) /\ InLoop(b)) => sref[c] # sref[b]

\* C8: an RXIQ that was attached and has returned (on a failed push or on
\* expiry) has made its FullStop exactly once and its removal exactly once,
\* and the session is stopped and no longer registered.
C8_CleanupOnEveryExit ==
    \A c \in Calls :
        (op[c] = "RXIQ" /\ pc[c] = "done" /\ result[c] # "err_running") =>
            /\ result[c] \in {"err_send", "err_expired"}
            /\ pipeStops[c] = 1 /\ pipeDeletes[c] = 1
            /\ heap[sref[c]].fullStopped
            /\ tok[c] \notin DOMAIN sessions

\* C8's case: a stream that pushed a buffer has ended on expiry and returned.
C8_Witness ==
    \E c \in Calls :
        /\ op[c] = "RXIQ" /\ pc[c] = "done" /\ result[c] = "err_expired"
        /\ Len(sent[c]) > 0 /\ pipeStops[c] = 1

\* C9: FullStop is not applied to a session both by Destroy and by the
\* pipeline's cleanup.
C9_StoppedOnceAcrossPaths ==
    \A s \in DOMAIN heap :
        LET who == {heap[s].stoppers[i] : i \in DOMAIN heap[s].stoppers}
        IN  ~("Destroy" \in who /\ "RXIQ" \in who)

\* The positions of a handler between its lookup in rs.sessions and its last
\* use of the map or of the session it found.
InRegistrySection(c) ==
    pc[c] \in {"prov_insert", "destroy_delete", "destroy_stop", "tune_forward",
               "rxiq_start", "rxiq_delete"}

\* C10: a handler is inside its registry section only while it holds the lock,
\* and no other call holds a session that a Destroy has removed and not yet
\* stopped.
C10_RegistryUnderLock ==
    /\ \A c \in Calls : InRegistrySection(c) => sessionLock = c
    /\ \A c, b \in Calls :
         (c # b /\ pc[c] = "destroy_stop" /\ pc[b] \notin {"idle", "done"})
             => sref[b] # sref[c]

\* ------------------------------------------------ claims on the commands
\* C11: a sendCommand, sayHello or setSetting called while no connection was
\* ever established returns false, writes nothing to any connection, does not
\* panic, and leaves the client object (parser and connection fields) as it was.
C11_NoConnectionNoSend ==
    [][(f.client = 0 /\ calls' # calls)
          => /\ calls'[Len(calls')].ret = FALSE
             /\ conns' = conns
             /\ \A i \in DOMAIN conns : conns[i].written = <<>>
             /\ panicMsg' = ""
             /\ f' = f]_vars

\* Each of the three functions has been called on a client never connected.
C11_Witness ==
    /\ f.client = 0
    /\ Len(calls) = MaxCalls
    /\ calls[1].op = "sayHello"
    /\ calls[2].op = "setSetting" /\ Len(calls[2].arg[2]) = 3

\* ------------------------------------------------ C12
\* The commands written on the connection, and the calls that wrote them.
Written == IF conns = <<>> THEN <<>> ELSE conns[1].written

WritingCalls == SelectSeq(calls, LAMBDA c : c.ret)

\* The sizes protocol.CommandHeader takes on the wire, and the uint64 version.
CommandHeaderSize == 8

VersionSize == 8

BodyOf(w) == SubSeq(w, CommandHeaderSize + 1, Len(w))

\* What the encoder is to have written for a call.
WellEncoded(c, w) ==
    /\ Len(w) >= CommandHeaderSize
    /\ GetU32(w, 4) = U32Of(Len(BodyOf(w)))
    /\ c.op = "setSetting" =>
         LET n == Len(c.arg[2])
         IN  /\ GetU32(w, 0) = U32Of(CmdSetSetting)
             /\ n = 0 => GetU32(w, 4) = U32Of(0) /\ BodyOf(w) = <<>>
             /\ n >= 1 =>
                  /\ Len(BodyOf(w)) = 4 * (n + 1)
                  /\ GetU32(BodyOf(w), 0) = U32Of(c.arg[1])
                  /\ \A k \in 1..n : GetU32(BodyOf(w), 4 * k) = c.arg[2][k]
    /\ c.op = "sayHello" =>
         /\ GetU32(w, 0) = U32Of(CmdHello)
         /\ Len(BodyOf(w)) = VersionSize + Len(softwareName)
         /\ SplitProtocolVersion(SubSeq(BodyOf(w), 1, VersionSize)) = CurrentProtocolVersion
         /\ SubSeq(BodyOf(w), VersionSize + 1, Len(BodyOf(w))) = softwareName
    /\ c.op = "sendCommand" =>
         /\ GetU32(w, 0) = U32Of(c.arg[1])
         /\ BodyOf(w) = c.arg[2]

\* C12: the bodySize in the header of every command written is the number of
\* body bytes that follow: the setting and the N parameters of a set-setting
\* with N >= 1 (4 * (N + 1) bytes), nothing for a set-setting with no
\* parameter, the 8 bytes of the version and the identifier for a hello.
C12_BodySizeIsBodyLength ==
    /\ Len(Written) = Len(WritingCalls)
    /\ \A i \in DOMAIN Written : WellEncoded(WritingCalls[i], Written[i])

\* A hello and a set-setting without parameters, or set-settings with one and
\* with three parameters, have been written.
C12_Witness ==
    /\ Len(Written) = MaxCalls
    /\ \/ WritingCalls[1].op = "sayHello"
          /\ WritingCalls[2].op = "setSetting" /\ WritingCalls[2].arg[2] = <<>>
       \/ /\ WritingCalls[1].op = "setSetting" /\ Len(WritingCalls[1].arg[2]) = 1
          /\ WritingCalls[2].op = "setSetting" /\ Len(WritingCalls[2].arg[2]) = 3

\* ------------------------------------------------ claims on Connect
\* C13: Connect succeeds only from a readiness poll made within the bound of
\* 1000 that finds the device info of a valid device and the sync info, both
\* received by the consumer; a Connect that leaves its wait otherwise has
\* disconnected (connection closed, terminated set) and panics, after the
\* 1000 polls or on the invalid device; the poll counter never passes 1000.
C13_ConnectNeedsBothInfos ==
    [][/\ (fpc = "polling" /\ fpc' = "connected")
            => /\ polls < PollLimit
               /\ f.gotDeviceInfo /\ f.gotSyncInfo
               /\ f.deviceInfo.DeviceType # U32Of(DeviceInvalid)
               /\ \E i \in DOMAIN dispatched :
                      dispatched[i].header.MessageType = U32Of(MsgTypeDeviceInfo)
               /\ \E i \in DOMAIN dispatched :
                      dispatched[i].header.MessageType = U32Of(MsgTypeClientSync)
       /\ (fpc = "polling" /\ fpc' = "failed")
            => /\ polls = PollLimit
                    \/ (f.gotDeviceInfo /\ f.deviceInfo.DeviceType = U32Of(DeviceInvalid))
               /\ conns'[f.client].closed
               /\ f'.terminated /\ ~f'.routineRunning
               /\ connectError' \in {PanicNoDevice, PanicNoInfo}
       /\ fpc = "polling" => fpc' \in {"polling", "connected", "failed"} /\ polls' >= polls
       /\ polls' <= PollLimit]_vars

\* A Connect has waited through its 1000 polls without the two infos and failed.
C13_Witness ==
    /\ fpc = "failed"
    /\ polls = PollLimit
    /\ connectError = PanicNoInfo
    /\ conns[Len(conns)].closed

\* ------------------------------------------------ C14
\* What the consumer of the first connection has received: the device info
\* frames and the sync frames among the frames complete in the bytes read.
Received(type) ==
    SelectSeq(RefFrames(Fed), LAMBDA fr : fr.header.MessageType = U32Of(type))

\* The situation a failed Connect was in: the device info reported the invalid
\* device, no device info came at all, or the device info came without the sync.
Situation ==
    IF Received(MsgTypeDeviceInfo) = <<>> THEN "unresponsive"
    ELSE IF GetU32(Received(MsgTypeDeviceInfo)[1].body, 0) = U32Of(DeviceInvalid) THEN "no device"
    ELSE IF Received(MsgTypeClientSync) = <<>> THEN "timeout"
    ELSE "ready"

\* The situation each failure of Connect's wait stands for: lines 514 and 531
\* are the only two messages.
SituationOf(msg) ==
    IF msg = PanicNoDevice THEN "no device"
    ELSE IF msg = PanicNoInfo THEN "unresponsive"
    ELSE "timeout"

\* C14: the failure a Connect reports when its wait fails tells the three
\* situations apart: no device available, server unresponsive, generic
\* timeout; no two of them are reported by the same failure.
C14_DistinctConnectFailures ==
    (Len(conns) = 1 /\ fpc = "failed" /\ connectError # PanicDial /\ Situation # "ready")
        => Situation = SituationOf(connectError)

\* ------------------------------------------------ claims on the frames' effects
\* The little-endian signed 16-bit value at offset off of a body, and the
\* floor(B / 4) pairs of a body of B bytes.
RefInt16(body, off) ==
    LET u == body[off + 1] + 256 * body[off + 2]
    IN  IF u >= 32768 THEN u - 65536 ELSE u

RefPairs(body) ==
    [i \in 1..(Len(body) \div 4) |->
        [Real |-> RefInt16(body, 4 * (i - 1)), Imag |-> RefInt16(body, 4 * (i - 1) + 2)]]

IsIQ(h) == h.MessageType \in {U32Of(MsgTypeIQ), U32Of(MsgTypeSmartIQ)}

\* What the IQ and SmartIQ frames of a sequence of frames are to hand to the
\* callback, and what the data callback was handed.
RefData(fr) ==
    [i \in 1..Len(fr) |->
        [kind |-> IF fr[i].header.MessageType = U32Of(MsgTypeIQ)
                  THEN "SamplesComplex32" ELSE "SmartSamplesComplex32",
         samples |-> RefPairs(fr[i].body)]]

OnData ==
    LET d == SelectSeq(dispatched,
                       LAMBDA m : m.event \in {"SamplesComplex32", "SmartSamplesComplex32"})
    IN  [i \in 1..Len(d) |-> [kind |-> d[i].event, samples |-> d[i].samples]]

\* C15: every IQ or SmartIQ frame received hands the data callback the
\* floor(B / 4) pairs of its body (Real the signed 16-bit little-endian value
\* at offset 4i, Imag the one at 4i + 2), tagged with the kind of its type, in
\* the order of the frames; without a callback nothing is handed over.
C15_IQSamplesDelivered ==
    (Feeding /\ ValidFrames(stream))
        => OnData = IF f.callback
                    THEN RefData(SelectSeq(RefFrames(Fed), LAMBDA fr : IsIQ(fr.header)))
                    ELSE <<>>

\* ------------------------------------------------ C16
\* major << 40 | minor << 32 | hash as the 8 little-endian bytes of the
\* 64-bit value, for a major and a minor that fit a byte.
RefPacked(v) == PutU32(v.Hash) \o <<v.Minor.lo, v.Major.lo, 0, 0>>

Packings == SelectSeq(calls, LAMBDA c : c.op = "GenProtocolVersion")

Splittings == SelectSeq(calls, LAMBDA c : c.op = "SplitProtocolVersion")

\* C16: GenProtocolVersion packs a version with major and minor in 0..255 as
\* major << 40 | minor << 32 | hash, SplitProtocolVersion of the packed value
\* gives the version back field for field, and two such versions that differ
\* in major or minor are packed to different values.
C16_VersionRoundTrip ==
    /\ \A i \in DOMAIN Packings : Packings[i].ret = RefPacked(Packings[i].arg)
    /\ \A i \in DOMAIN Packings, j \in DOMAIN Splittings :
           Splittings[j].arg = Packings[i].ret
               => /\ Splittings[j].ret.Major = Packings[i].arg.Major
                  /\ Splittings[j].ret.Minor = Packings[i].arg.Minor
                  /\ Splittings[j].ret.Hash = Packings[i].arg.Hash
    /\ \A i, j \in DOMAIN Packings :
           (Packings[i].arg.Major # Packings[j].arg.Major
                \/ Packings[i].arg.Minor # Packings[j].arg.Minor)
               => Packings[i].ret # Packings[j].ret

\* Two versions that differ in the major only, with the largest minor and
\* hash, have been packed, and one of the packed values has been split.
C16_Witness ==
    /\ Len(Packings) = 2 /\ Len(Splittings) = 1
    /\ Packings[1].arg = [Major |-> U32Of(255), Minor |-> U32Of(255), Hash |-> U32Max]
    /\ Packings[2].arg = [Major |-> U32Of(1), Minor |-> U32Of(255), Hash |-> U32Max]
    /\ Splittings[1].arg = Packings[1].ret

\* ------------------------------------------------ C17
\* C17: a call of parseMessage comes to its end: every round of its loop
\* consumes at least one byte of the chunk, so no consumer is held in the loop
\* with bytes of its chunk left, repeating a round that consumes nothing,
\* unless the client was terminated.
C17_ParseMessageTerminates ==
    \A t \in Conns : cpc[t] = "spinning" => f.terminated

\* ------------------------------------------------ C18
\* The frames without a body among a sequence of frames or of dispatches.
Bodiless(frames) == SelectSeq(frames, LAMBDA m : m.header.BodySize = U32Of(0))

\* The bytes fed end with the last header byte of a frame without a body.
FedEndsBodiless ==
    /\ RefFrames(Fed) # <<>>
    /\ FrameBytes(RefFrames(Fed)) = Len(Fed)
    /\ RefFrames(Fed)[Len(RefFrames(Fed))].header.BodySize = U32Of(0)

\* C18: a frame whose header declares bodySize 0 is dispatched once, when its
\* last header byte has arrived, with its packet number accounted for, and
\* the parser is then acquiring a header at cursor 0.
C18_BodilessFrameDispatched ==
    (Feeding /\ ValidFrames(stream))
        => /\ Bodiless(Delivered) = Bodiless(RefFrames(Fed))
           /\ (FedEndsBodiless /\ cpc[1] \in {"loop", "reading"})
                  => /\ f.parserPhase = ParserAcquiringHeader
                     /\ f.parserPosition = 0
                     /\ f.lastSequenceNumber
                            = RefFrames(Fed)[Len(RefFrames(Fed))].header.PacketNumber

\* ------------------------------------------------ C19
\* A message type handleNewMessage has no handler with an effect for:
\* ReadSetting, or a type it does not know.
Ignored(h) ==
    h.MessageType \notin {U32Of(MsgTypeDeviceInfo), U32Of(MsgTypeClientSync),
                          U32Of(MsgTypeIQ), U32Of(MsgTypeSmartIQ)}

\* The frames or dispatches from the first ignored one on.
FromIgnored(frames) ==
    IF \E i \in DOMAIN frames : Ignored(frames[i].header)
    THEN SubSeq(frames, CHOOSE i \in DOMAIN frames :
                            /\ Ignored(frames[i].header)
                            /\ \A j \in 1..(i - 1) : ~Ignored(frames[j].header),
                Len(frames))
    ELSE <<>>

\* The session and sync fields of the client.
SessionFields(o) ==
    <<o.gotDeviceInfo, o.gotSyncInfo, o.deviceInfo, o.CanControl, o.gain, o.Streaming,
      o.DeviceCenterFrequency, o.SmartCenterFrequency, o.MinimumTunableFrequency,
      o.MaximumTunableFrequency>>

\* C19: a ReadSetting frame or a frame of an unknown type is consumed whole
\* (header and body), invokes no callback and changes no session or sync
\* field; the parser is then acquiring a header at cursor 0 and the frames
\* that follow are dispatched as after any other frame.
C19_IgnoredFrameSkipped ==
    (Feeding /\ ValidFrames(stream))
        => /\ FromIgnored(Delivered) = FromIgnored(RefFrames(Fed))
           /\ \A i \in DOMAIN dispatched :
                  Ignored(dispatched[i].header) => dispatched[i].event = "none"
           /\ (/\ RefFrames(Fed) # <<>>
               /\ FrameBytes(RefFrames(Fed)) = Len(Fed)
               /\ \A i \in DOMAIN RefFrames(Fed) :
                      Ignored(RefFrames(Fed)[i].header) \/ IsIQ(RefFrames(Fed)[i].header)
               /\ Ignored(RefFrames(Fed)[Len(RefFrames(Fed))].header)
               /\ cpc[1] \in {"loop", "reading"})
                  => /\ f.parserPhase = ParserAcquiringHeader
                     /\ f.parserPosition = 0
                     /\ SessionFields(f) = SessionFields(MakeRadioClient)

\* ------------------------------------------------ C20
\* C20: once the session of a running delivery loop is marked fully stopped
\* (by the inactivity timeout or by Destroy), the loop comes to see it and
\* ends, also when no further buffer arrives after the stop.
C20_StoppedLoopEnds ==
    \A c \in Calls :
        (InLoop(c) /\ crashed = "no" /\ heap[sref[c]].fullStopped)
            ~> (~InLoop(c) \/ crashed # "no")

\* ------------------------------------------------ claims on the delivery loop
\* C21: a delivery loop takes the buffer at the head of the session's queue
\* and pushes it once; after a successful push, and only then, the session's
\* last-activity stamp is refreshed once; a failed push refreshes nothing and
\* the call takes and pushes no further buffer.
C21_FifoPushAndRefresh ==
    [][/\ \A c \in Calls :
            /\ (pc[c] = "rxiq_loop" /\ pc'[c] = "rxiq_sent")
                  => /\ sent'[c] = Append(sent[c], Head(heap[sref[c]].fifo))
                     /\ heap'[sref[c]].fifo = Tail(heap[sref[c]].fifo)
                     /\ heap'[sref[c]].lastUpdate = heap[sref[c]].lastUpdate
            /\ (pc[c] = "rxiq_sent" /\ pc'[c] # "rxiq_sent")
                  => /\ heap'[sref[c]].lastUpdate = heap[sref[c]].lastUpdate + 1
                     /\ heap'[sref[c]].fifo = heap[sref[c]].fifo
                     /\ sent'[c] = sent[c]
            /\ (pc[c] = "rxiq_loop" /\ pc'[c] \notin {"rxiq_loop", "rxiq_sent"})
                  => /\ pc'[c] = "rxiq_fullstop" /\ result'[c] = "err_send"
                     /\ heap'[sref[c]].fifo = Tail(heap[sref[c]].fifo)
                     /\ heap'[sref[c]].lastUpdate = heap[sref[c]].lastUpdate
                     /\ sent'[c] = sent[c]
            /\ pc[c] \in {"rxiq_fullstop", "rxiq_delete"}
                  => /\ pc'[c] \notin {"rxiq_loop", "rxiq_sent"}
                     /\ sent'[c] = sent[c]
            /\ \A i \in 1..(Len(sent'[c]) - 1) : sent'[c][i] < sent'[c][i + 1]
       /\ \A s \in DOMAIN heap :
            heap'[s].lastUpdate # heap[s].lastUpdate
                => \E c \in Calls : sref[c] = s /\ pc[c] = "rxiq_sent" /\ pc'[c] # "rxiq_sent"]_vars

\* A loop has pushed the first buffer and refreshed the session once; the
\* push of the second buffer failed and the call has returned.
C21_Witness ==
    \E c \in Calls :
        /\ op[c] = "RXIQ" /\ pc[c] = "done" /\ result[c] = "err_send"
        /\ sent[c] = <<1>>
        /\ heap[sref[c]].produced = 2
        /\ heap[sref[c]].lastUpdate = 1

C23_OutOfTableIsInvalid ==
    [][(Len(calls') > Len(calls)
        /\ calls'[Len(calls')].op \in {"SetDecimationStage", "SetSmartDecimation"})
       => /\ panicMsg' = ""
          /\ calls'[Len(calls')].arg >= Len(f.availableSampleRates)
                => /\ calls'[Len(calls')].ret = <<Invalid>>
                   /\ conns' = conns
                   /\ f' = f]_vars

\* ------------------------------------------------ claims on RXIQ's lookup
\* C24: an RXIQ call with a token that is not in the registry (and that the
\* unsynchronised map read does not end) dereferences no missing session,
\* returns an error to its caller, starts no delivery loop and leaves the
\* registry as it was.
C24_UnknownTokenIsError ==
    [][\A c \in Calls :
          (op[c] = "none" /\ op'[c] = "RXIQ" /\ tok'[c] \notin DOMAIN sessions
           /\ crashed' # "map_race")
          => /\ crashed' = "no"
             /\ pc'[c] = "done"
             /\ result'[c] \notin {"none", "ok"}
             /\ sessions' = sessions]_vars

\* ------------------------------------------------ claims on the connection's state
\* The consumers that have been started and have not ended.
Consumers == {t \in Conns : cpc[t] \in {"spawned", "loop", "reading", "spinning", "closing"}}

\* The state of the connection that Disconnect and a consumer's end reset.
ConnectionState(o) ==
    <<o.terminated, o.routineRunning, o.gotDeviceInfo, o.gotSyncInfo, o.parserPhase,
      o.parserPosition, o.lastSequenceNumber, o.droppedBuffers>>

\* C25: at most one background consumer lives at any time, and the end of the
\* consumer of an earlier connection leaves the state of the connection made
\* after it as it is.
C25_OwnConsumerOnly ==
    [][/\ Cardinality(Consumers') <= 1
       /\ \A t \in Conns :
            (cpc[t] = "closing" /\ cpc'[t] = "exited" /\ t # f.client)
                => ConnectionState(f') = ConnectionState(f)]_vars

====
